---- MODULE Spec2Model ----
(***************************************************************************)
(* Model of drivers/gpio/gpio-xbrother.c: xbrother_probe (setup) and       *)
(* xbrother_remove (teardown).                                             *)
(*                                                                         *)
(* The device-tree node has MaxChildren child nodes, numbered 0..N-1 in    *)
(* declaration order.  The line provider (gpiolib) and the namespace       *)
(* publisher (sysfs / driver core) are collaborators: their state is kept  *)
(* in lineFlags, classExists, rootExists, aliasLinks, exported, leafLinks, *)
(* and every call made to them is appended to log in call order.           *)
(*                                                                         *)
(* Line handles are obtained with devm_gpiod_get_index: neither function   *)
(* releases one; the driver core drops them after the function returned,   *)
(* which is outside the two functions modelled here.  lineMode fixes, per  *)
(* line of the provider, how it answers: a line that cannot be acquired or *)
(* published stays so for the whole call.                                  *)
(***************************************************************************)
EXTENDS Integers, Sequences, FiniteSets

\* ---------------------------------------------------------------- bounds
MaxChildren == 2
MaxRemoves == 2

Children == 0 .. (MaxChildren - 1)
Lines == 0 .. (MaxChildren - 1)

\* ------------------------------------------------------ program constants
CLASS_NAME == "xbrother"
OtherAlias == "board-io"

NoLine == -1
ErrLine == -2
NoChild == -1

LineModes == {"ok", "fail", "defer", "expfail", "linkfail"}
DirTokens == {"input", "output", "low", "high", "bogus"}

VARIABLES
    enabled,      \* device tree: of_device_is_available per child
    lineMode,     \* collaborators: how line l answers acquire / publish
    pc,           \* position in xbrother_probe / xbrother_remove
    cnp,          \* probe: index of the child node being visited
    i,            \* probe: number of lines exported so far
    gpio_count,   \* probe: local count of available children
    ret,          \* probe: local ret / returned value once pc = "done"
    sysfs_link,   \* probe: local alias name ("" is NULL)
    dir_str,      \* probe: direction token of the current child ("" is NULL)
    dflags,       \* probe: gpiod flags of the current child
    priv,         \* struct xbrother_priv
    classExists,  \* namespace: class "xbrother"
    rootExists,   \* namespace: root device "gpio"
    aliasLinks,   \* namespace: top-level alias links, by name
    exported,     \* namespace: lines with an export node (leaf node)
    leafLinks,    \* namespace: named links under the root device
    lineFlags,    \* provider: "FREE" or the flags the line is held with
    log,          \* calls made to the collaborators, in order
    outcome,      \* per child: how its visit ended
    removes,      \* number of xbrother_remove invocations started
    ri,           \* remove: loop index
    rlink,        \* remove: local alias name ("" is NULL)
    xb_prop,      \* device tree: "xbrother,sysfs-link", "?" until first read
    declared,     \* per child: direction token read from it ("" is: none read)
    level,        \* provider: output level of each line
    wres          \* value interface: the last write and its result

vars == <<enabled, lineMode, pc, cnp, i, gpio_count, ret, sysfs_link, dir_str,
          dflags, priv, classExists, rootExists, aliasLinks, exported,
          leafLinks, lineFlags, log, outcome, removes, ri, rlink, xb_prop,
          declared, level, wres>>

dtVars == <<enabled, lineMode, xb_prop>>
nsVars == <<classExists, rootExists, aliasLinks, exported, leafLinks>>
rmVars == <<removes, ri, rlink>>
vaVars == <<level, wres>>

NoWrite == [child |-> NoChild, line |-> NoLine, value |-> 0, res |-> "NONE",
            before |-> 0]

\* ------------------------------------------------------------ helpers
Call(op, line, child, name) ==
    [op |-> op, line |-> line, child |-> child, name |-> name, by |-> removes]

EmptySlot == [gpiod |-> NoLine, name |-> NoChild]

\* struct xbrother_priv after devm_kzalloc: all fields zero
ZeroPriv ==
    [class |-> FALSE, sysfs_dev |-> FALSE, gpio_count |-> 0,
     gpios |-> [s \in {} |-> EmptySlot], drvdata |-> FALSE]

\* Number of available children, as the counting loop computes it
CountAvailable == Cardinality({c \in Children : enabled[c]})

\* Line provider: result of requesting line l ("OK" or an error code)
AcquireResult(l) ==
    IF l \notin Lines THEN "ENOENT"
    ELSE IF lineFlags[l] # "FREE" THEN "EBUSY"
    ELSE IF lineMode[l] = "fail" THEN "ENOENT"
    ELSE IF lineMode[l] = "defer" THEN "EPROBE_DEFER"
    ELSE "OK"

\* Line provider: level of a line after it was requested with flags fl
InitialLevel(fl, old) ==
    IF fl = "GPIOD_OUT_HIGH" THEN 1
    ELSE IF fl = "GPIOD_OUT_LOW" THEN 0
    ELSE old

\* DirFlags with "output" decoded as output-high
DirFlags_OutputIsHigh(tok) ==
    IF tok = "input" THEN "GPIOD_IN"
    ELSE IF tok = "low" THEN "GPIOD_OUT_LOW"
    ELSE IF tok = "output" \/ tok = "high" THEN "GPIOD_OUT_HIGH"
    ELSE "INVALID"

\* DirFlags with "input" decoded as output-low
DirFlags_InputIsOutput(tok) ==
    IF tok = "input" \/ tok = "output" \/ tok = "low" THEN "GPIOD_OUT_LOW"
    ELSE IF tok = "high" THEN "GPIOD_OUT_HIGH"
    ELSE "INVALID"

\* strcmp chain of the direction token
DirFlags(tok) ==
    IF tok = "input" THEN "GPIOD_IN"
    ELSE IF tok = "output" \/ tok = "low" THEN "GPIOD_OUT_LOW"
    ELSE IF tok = "high" THEN "GPIOD_OUT_HIGH"
    ELSE "INVALID"

\* ------------------------------------------------------------ Init
Init ==
    /\ enabled \in [Children -> BOOLEAN]
    /\ lineMode \in [Lines -> LineModes]
    /\ pc = "start"
    /\ cnp = 0
    /\ i = 0
    /\ gpio_count = 0
    /\ ret = "UNSET"
    /\ sysfs_link = ""
    /\ dir_str = ""
    /\ dflags = "NONE"
    /\ priv = ZeroPriv
    /\ classExists = FALSE
    /\ rootExists = FALSE
    /\ aliasLinks = {}
    /\ exported = {}
    /\ leafLinks = {}
    /\ lineFlags = [l \in Lines |-> "FREE"]
    /\ log = <<>>
    /\ outcome = [c \in Children |-> "none"]
    /\ removes = 0
    /\ ri = 0
    /\ rlink = ""
    /\ xb_prop = "?"
    /\ declared = [c \in Children |-> ""]
    /\ level = [l \in Lines |-> 0]
    /\ wres = NoWrite

\* ------------------------------------------------------------ xbrother_probe

\* np check and allocation of priv
ProbeEntry ==
    /\ pc = "start"
    /\ \E hasNode \in BOOLEAN, allocOk \in BOOLEAN :
         IF ~hasNode THEN /\ ret' = "ENODEV" /\ pc' = "done"
         ELSE IF ~allocOk THEN /\ ret' = "ENOMEM" /\ pc' = "done"
         ELSE /\ ret' = ret /\ pc' = "count"
    /\ UNCHANGED <<dtVars, declared, vaVars, cnp, i, gpio_count, sysfs_link, dir_str, dflags,
                   priv, nsVars, lineFlags, log, outcome, rmVars>>

\* CountChildren without the "gpio_count == 0" check
CountChildren_NoEmptyCheck ==
    /\ pc = "count"
    /\ gpio_count' = CountAvailable
    /\ \E allocOk \in BOOLEAN :
         IF ~allocOk
         THEN /\ ret' = "ENOMEM" /\ pc' = "done" /\ priv' = priv
         ELSE /\ ret' = ret
              /\ pc' = "class"
              /\ priv' = [priv EXCEPT
                            !.gpios = [s \in 0 .. (CountAvailable - 1) |-> EmptySlot]]
    /\ UNCHANGED <<dtVars, declared, vaVars, cnp, i, sysfs_link, dir_str, dflags, nsVars,
                   lineFlags, log, outcome, rmVars>>

\* counting loop and allocation of the gpios array
CountChildren ==
    /\ pc = "count"
    /\ gpio_count' = CountAvailable
    /\ \E allocOk \in BOOLEAN :
         IF CountAvailable = 0
         THEN /\ ret' = "EINVAL" /\ pc' = "done" /\ priv' = priv
         ELSE IF ~allocOk
         THEN /\ ret' = "ENOMEM" /\ pc' = "done" /\ priv' = priv
         ELSE /\ ret' = ret
              /\ pc' = "class"
              /\ priv' = [priv EXCEPT
                            !.gpios = [s \in 0 .. (CountAvailable - 1) |-> EmptySlot]]
    /\ UNCHANGED <<dtVars, declared, vaVars, cnp, i, sysfs_link, dir_str, dflags, nsVars,
                   lineFlags, log, outcome, rmVars>>

ClassCreate ==
    /\ pc = "class"
    /\ \E ok \in BOOLEAN :
         IF ok
         THEN /\ priv' = [priv EXCEPT !.class = TRUE]
              /\ classExists' = TRUE
              /\ log' = Append(log, Call("class_create", NoLine, NoChild, CLASS_NAME))
              /\ ret' = ret
              /\ pc' = "device"
         ELSE /\ ret' = "ENOMEM"
              /\ pc' = "done"
              /\ UNCHANGED <<priv, classExists, log>>
    /\ UNCHANGED <<dtVars, declared, vaVars, cnp, i, gpio_count, sysfs_link, dir_str, dflags,
                   rootExists, aliasLinks, exported, leafLinks, lineFlags,
                   outcome, rmVars>>

\* DeviceCreate with a failure unwinding from err_device instead of err_class
DeviceCreate_FailGotoErrDevice ==
    /\ pc = "device"
    /\ \E ok \in BOOLEAN :
         IF ok
         THEN /\ priv' = [priv EXCEPT !.sysfs_dev = TRUE]
              /\ rootExists' = TRUE
              /\ log' = Append(log, Call("device_create", NoLine, NoChild, "gpio"))
              /\ ret' = ret
              /\ pc' = "link"
         ELSE /\ ret' = "ENOMEM"
              /\ pc' = "err_device"
              /\ UNCHANGED <<priv, rootExists, log>>
    /\ UNCHANGED <<dtVars, declared, vaVars, cnp, i, gpio_count, sysfs_link, dir_str, dflags,
                   classExists, aliasLinks, exported, leafLinks, lineFlags,
                   outcome, rmVars>>

DeviceCreate ==
    /\ pc = "device"
    /\ \E ok \in BOOLEAN :
         IF ok
         THEN /\ priv' = [priv EXCEPT !.sysfs_dev = TRUE]
              /\ rootExists' = TRUE
              /\ log' = Append(log, Call("device_create", NoLine, NoChild, "gpio"))
              /\ ret' = ret
              /\ pc' = "link"
         ELSE /\ ret' = "ENOMEM"
              /\ pc' = "err_class"
              /\ UNCHANGED <<priv, rootExists, log>>
    /\ UNCHANGED <<dtVars, declared, vaVars, cnp, i, gpio_count, sysfs_link, dir_str, dflags,
                   classExists, aliasLinks, exported, leafLinks, lineFlags,
                   outcome, rmVars>>

\* "sysfs-link" property (or CLASS_NAME) and the alias link
CreateLink ==
    /\ pc = "link"
    /\ \E prop \in {"", OtherAlias}, ok \in BOOLEAN :
         LET nm == IF prop = "" THEN CLASS_NAME ELSE prop IN
         /\ sysfs_link' = nm
         /\ IF ok
            THEN /\ aliasLinks' = aliasLinks \cup {nm}
                 /\ log' = Append(log, Call("sysfs_create_link", NoLine, NoChild, nm))
                 /\ ret' = "0"
                 /\ cnp' = 0
                 /\ i' = 0
                 /\ pc' = "loop"
            ELSE /\ ret' = "EEXIST"
                 /\ pc' = "err_device"
                 /\ UNCHANGED <<aliasLinks, log, cnp, i>>
    /\ UNCHANGED <<dtVars, declared, vaVars, gpio_count, dir_str, dflags, priv, classExists,
                   rootExists, exported, leafLinks, lineFlags, outcome, rmVars>>

\* for_each_child_of_node step: availability check, bound check, slot choice
LoopHead ==
    /\ pc = "loop"
    /\ IF cnp >= MaxChildren
       THEN /\ pc' = "after"
            /\ UNCHANGED <<cnp, ret, outcome>>
       ELSE IF ~enabled[cnp]
       THEN /\ outcome' = [outcome EXCEPT ![cnp] = "disabled"]
            /\ cnp' = cnp + 1
            /\ UNCHANGED <<pc, ret>>
       ELSE IF i >= gpio_count
       THEN /\ ret' = "EINVAL"
            /\ pc' = "err_sysfs"
            /\ outcome' = [outcome EXCEPT ![cnp] = "overflow"]
            /\ UNCHANGED cnp
       ELSE /\ pc' = "name"
            /\ UNCHANGED <<cnp, ret, outcome>>
    /\ UNCHANGED <<dtVars, declared, vaVars, i, gpio_count, sysfs_link, dir_str, dflags, priv,
                   nsVars, lineFlags, log, rmVars>>

\* of_property_read_string(cnp, "name", &gpio->name)
ReadName ==
    /\ pc = "name"
    /\ \E has \in BOOLEAN :
         IF has
         THEN /\ priv' = [priv EXCEPT !.gpios[i].name = cnp]
              /\ ret' = "0"
              /\ dir_str' = ""
              /\ pc' = "direction"
              /\ UNCHANGED <<cnp, outcome>>
         ELSE /\ ret' = "EINVAL"
              /\ outcome' = [outcome EXCEPT ![cnp] = "noname"]
              /\ cnp' = cnp + 1
              /\ pc' = "loop"
              /\ UNCHANGED <<priv, dir_str>>
    /\ UNCHANGED <<dtVars, declared, vaVars, i, gpio_count, sysfs_link, dflags, nsVars,
                   lineFlags, log, rmVars>>

\* of_property_read_string(cnp, "direction", &dir_str)
ReadDirection ==
    /\ pc = "direction"
    /\ \E tok \in DirTokens \cup {""} :
         IF tok # ""
         THEN /\ dir_str' = tok
              /\ declared' = [declared EXCEPT ![cnp] = tok]
              /\ ret' = "0"
              /\ pc' = "flags"
              /\ UNCHANGED <<cnp, outcome>>
         ELSE /\ ret' = "EINVAL"
              /\ outcome' = [outcome EXCEPT ![cnp] = "nodir"]
              /\ cnp' = cnp + 1
              /\ pc' = "loop"
              /\ UNCHANGED <<dir_str, declared>>
    /\ UNCHANGED <<dtVars, vaVars, i, gpio_count, sysfs_link, dflags, priv, nsVars,
                   lineFlags, log, rmVars>>

\* direction flags from the token
SetFlags ==
    /\ pc = "flags"
    /\ IF DirFlags(dir_str) # "INVALID"
       THEN /\ dflags' = DirFlags(dir_str)
            /\ pc' = "get"
            /\ UNCHANGED <<cnp, outcome>>
       ELSE /\ outcome' = [outcome EXCEPT ![cnp] = "baddir"]
            /\ cnp' = cnp + 1
            /\ pc' = "loop"
            /\ UNCHANGED dflags
    /\ dir_str' = ""
    /\ UNCHANGED <<dtVars, declared, vaVars, i, gpio_count, ret, sysfs_link, priv, nsVars,
                   lineFlags, log, rmVars>>

\* GetGpiod with -EPROBE_DEFER handled like any other acquire failure
GetGpiod_DeferIsSoftSkip ==
    /\ pc = "get"
    /\ log' = Append(log, Call("gpiod_get_index", i, cnp, ""))
    /\ IF AcquireResult(i) = "OK"
       THEN /\ priv' = [priv EXCEPT !.gpios[i].gpiod = i]
            /\ lineFlags' = [lineFlags EXCEPT ![i] = dflags]
            /\ level' = [level EXCEPT ![i] = InitialLevel(dflags, level[i])]
            /\ pc' = "export"
            /\ UNCHANGED <<ret, cnp, outcome>>
       ELSE /\ priv' = [priv EXCEPT !.gpios[i].gpiod = ErrLine]
            /\ ret' = AcquireResult(i)
            /\ UNCHANGED <<lineFlags, level>>
            /\ outcome' = [outcome EXCEPT ![cnp] =
                             IF AcquireResult(i) = "EPROBE_DEFER"
                             THEN "defer" ELSE "acqfail"]
            /\ cnp' = cnp + 1
            /\ pc' = "loop"
    /\ dflags' = "NONE"
    /\ UNCHANGED <<dtVars, declared, wres, i, gpio_count, sysfs_link, dir_str,
                   nsVars, rmVars>>

\* devm_gpiod_get_index(dev, NULL, i, dflags): the line requested is index i
GetGpiod ==
    /\ pc = "get"
    /\ log' = Append(log, Call("gpiod_get_index", i, cnp, ""))
    /\ IF AcquireResult(i) = "OK"
       THEN /\ priv' = [priv EXCEPT !.gpios[i].gpiod = i]
            /\ lineFlags' = [lineFlags EXCEPT ![i] = dflags]
            /\ level' = [level EXCEPT ![i] = InitialLevel(dflags, level[i])]
            /\ pc' = "export"
            /\ UNCHANGED <<ret, cnp, outcome>>
       ELSE /\ priv' = [priv EXCEPT !.gpios[i].gpiod = ErrLine]
            /\ ret' = AcquireResult(i)
            /\ UNCHANGED <<lineFlags, level>>
            /\ IF AcquireResult(i) = "EPROBE_DEFER"
               THEN /\ outcome' = [outcome EXCEPT ![cnp] = "defer"]
                    /\ pc' = "err_sysfs"
                    /\ UNCHANGED cnp
               ELSE /\ outcome' = [outcome EXCEPT ![cnp] = "acqfail"]
                    /\ cnp' = cnp + 1
                    /\ pc' = "loop"
    /\ dflags' = "NONE"
    /\ UNCHANGED <<dtVars, declared, wres, i, gpio_count, sysfs_link, dir_str,
                   nsVars, rmVars>>

\* gpiod_export(gpio->gpiod, dmc)
Export ==
    /\ pc = "export"
    /\ LET l == priv.gpios[i].gpiod IN
       /\ log' = Append(log, Call("gpiod_export", l, cnp, ""))
       /\ IF lineMode[l] # "expfail"
          THEN /\ exported' = exported \cup {l}
               /\ ret' = "0"
               /\ pc' = "export_link"
               /\ UNCHANGED <<cnp, outcome>>
          ELSE /\ ret' = "ENOMEM"
               /\ outcome' = [outcome EXCEPT ![cnp] = "expfail"]
               /\ cnp' = cnp + 1
               /\ pc' = "loop"
               /\ UNCHANGED exported
    /\ UNCHANGED <<dtVars, declared, vaVars, i, gpio_count, sysfs_link, dir_str, dflags, priv,
                   classExists, rootExists, aliasLinks, leafLinks, lineFlags,
                   rmVars>>

\* ExportLink with i++ done even when the link could not be created
ExportLink_CountsFailedLink ==
    /\ pc = "export_link"
    /\ LET l == priv.gpios[i].gpiod
           nm == priv.gpios[i].name IN
       IF lineMode[l] # "linkfail"
       THEN /\ log' = Append(log, Call("gpiod_export_link", l, nm, ""))
            /\ leafLinks' = leafLinks \cup {[name |-> nm, line |-> l]}
            /\ ret' = "0"
            /\ outcome' = [outcome EXCEPT ![cnp] = "ok"]
            /\ UNCHANGED exported
       ELSE /\ log' = log \o <<Call("gpiod_export_link", l, nm, ""),
                               Call("gpiod_unexport", l, nm, "")>>
            /\ exported' = exported \ {l}
            /\ ret' = "EEXIST"
            /\ outcome' = [outcome EXCEPT ![cnp] = "linkfail"]
            /\ UNCHANGED leafLinks
    /\ i' = i + 1
    /\ cnp' = cnp + 1
    /\ pc' = "loop"
    /\ UNCHANGED <<dtVars, declared, vaVars, gpio_count, sysfs_link, dir_str, dflags, priv,
                   classExists, rootExists, aliasLinks, lineFlags, rmVars>>

\* gpiod_export_link(priv->sysfs_dev, gpio->name, gpio->gpiod), then i++
ExportLink ==
    /\ pc = "export_link"
    /\ LET l == priv.gpios[i].gpiod
           nm == priv.gpios[i].name IN
       IF lineMode[l] # "linkfail"
       THEN /\ log' = Append(log, Call("gpiod_export_link", l, nm, ""))
            /\ leafLinks' = leafLinks \cup {[name |-> nm, line |-> l]}
            /\ ret' = "0"
            /\ i' = i + 1
            /\ outcome' = [outcome EXCEPT ![cnp] = "ok"]
            /\ UNCHANGED exported
       ELSE /\ log' = log \o <<Call("gpiod_export_link", l, nm, ""),
                               Call("gpiod_unexport", l, nm, "")>>
            /\ exported' = exported \ {l}
            /\ ret' = "EEXIST"
            /\ outcome' = [outcome EXCEPT ![cnp] = "linkfail"]
            /\ UNCHANGED <<i, leafLinks>>
    /\ cnp' = cnp + 1
    /\ pc' = "loop"
    /\ UNCHANGED <<dtVars, declared, vaVars, gpio_count, sysfs_link, dir_str, dflags, priv,
                   classExists, rootExists, aliasLinks, lineFlags, rmVars>>

\* AfterLoop without the "i == 0" check: an empty group is reported as success
AfterLoop_NoZeroCheck ==
    /\ pc = "after"
    /\ priv' = [priv EXCEPT !.gpio_count = i, !.drvdata = TRUE]
    /\ ret' = "0"
    /\ pc' = "done"
    /\ UNCHANGED <<dtVars, declared, vaVars, cnp, i, gpio_count, sysfs_link, dir_str, dflags,
                   nsVars, lineFlags, log, outcome, rmVars>>

\* after the loop: nothing exported is fatal, otherwise success
AfterLoop ==
    /\ pc = "after"
    /\ IF i = 0
       THEN /\ ret' = "EINVAL"
            /\ pc' = "err_sysfs"
            /\ UNCHANGED priv
       ELSE /\ priv' = [priv EXCEPT !.gpio_count = i, !.drvdata = TRUE]
            /\ ret' = "0"
            /\ pc' = "done"
    /\ UNCHANGED <<dtVars, declared, vaVars, cnp, i, gpio_count, sysfs_link, dir_str, dflags,
                   nsVars, lineFlags, log, outcome, rmVars>>

\* err_sysfs: sysfs_remove_link(NULL, sysfs_link)
ErrSysfs ==
    /\ pc = "err_sysfs"
    /\ aliasLinks' = aliasLinks \ {sysfs_link}
    /\ log' = Append(log, Call("sysfs_remove_link", NoLine, NoChild, sysfs_link))
    /\ pc' = "err_device"
    /\ UNCHANGED <<dtVars, declared, vaVars, cnp, i, gpio_count, ret, sysfs_link, dir_str,
                   dflags, priv, classExists, rootExists, exported, leafLinks,
                   lineFlags, outcome, rmVars>>

\* err_device: device_destroy(priv->class, MKDEV(0, 0))
ErrDevice ==
    /\ pc = "err_device"
    /\ rootExists' = FALSE
    /\ leafLinks' = {}
    /\ log' = Append(log, Call("device_destroy", NoLine, NoChild, "gpio"))
    /\ pc' = "err_class"
    /\ UNCHANGED <<dtVars, declared, vaVars, cnp, i, gpio_count, ret, sysfs_link, dir_str,
                   dflags, priv, classExists, aliasLinks, exported, lineFlags,
                   outcome, rmVars>>

\* err_class: class_destroy(priv->class); return ret
ErrClass ==
    /\ pc = "err_class"
    /\ classExists' = FALSE
    /\ log' = Append(log, Call("class_destroy", NoLine, NoChild, CLASS_NAME))
    /\ pc' = "done"
    /\ UNCHANGED <<dtVars, declared, vaVars, cnp, i, gpio_count, ret, sysfs_link, dir_str,
                   dflags, priv, rootExists, aliasLinks, exported, leafLinks,
                   lineFlags, outcome, rmVars>>

\* ------------------------------------------------------------ xbrother_remove

\* entry of xbrother_remove on the driver data of a successful probe
RemoveEntry ==
    /\ pc = "done"
    /\ priv.drvdata
    /\ removes < MaxRemoves
    /\ removes' = removes + 1
    /\ ri' = 0
    /\ rlink' = ""
    /\ pc' = "r_unexport"
    /\ UNCHANGED <<dtVars, declared, vaVars, cnp, i, gpio_count, ret, sysfs_link, dir_str,
                   dflags, priv, nsVars, lineFlags, log, outcome>>

\* one step of: for (i = 0; i < priv->gpio_count; i++) gpiod_unexport(...)
RemoveUnexport ==
    /\ pc = "r_unexport"
    /\ IF ri < priv.gpio_count
       THEN /\ ri' = ri + 1
            /\ pc' = pc
            /\ IF priv.gpios[ri].gpiod # NoLine
               THEN /\ exported' = exported \ {priv.gpios[ri].gpiod}
                    /\ log' = Append(log, Call("gpiod_unexport",
                                               priv.gpios[ri].gpiod,
                                               priv.gpios[ri].name, ""))
               ELSE UNCHANGED <<exported, log>>
       ELSE /\ pc' = "r_link"
            /\ UNCHANGED <<ri, exported, log>>
    /\ UNCHANGED <<dtVars, declared, vaVars, cnp, i, gpio_count, ret, sysfs_link, dir_str,
                   dflags, priv, classExists, rootExists, aliasLinks,
                   leafLinks, lineFlags, outcome, removes, rlink>>

\* "xbrother,sysfs-link" property (or CLASS_NAME) and sysfs_remove_link
RemoveLink ==
    /\ pc = "r_link"
    /\ \E prop \in (IF xb_prop = "?" THEN {"", OtherAlias} ELSE {xb_prop}) :
         LET nm == IF prop = "" THEN CLASS_NAME ELSE prop IN
         /\ xb_prop' = prop
         /\ rlink' = nm
         /\ aliasLinks' = aliasLinks \ {nm}
         /\ log' = Append(log, Call("sysfs_remove_link", NoLine, NoChild, nm))
    /\ pc' = "r_destroy"
    /\ UNCHANGED <<enabled, lineMode, declared, vaVars, cnp, i, gpio_count, ret, sysfs_link, dir_str,
                   dflags, priv, classExists, rootExists, exported, leafLinks,
                   lineFlags, outcome, removes, ri>>

\* device_destroy(priv->class, MKDEV(0, 0)); class_destroy(priv->class)
RemoveDestroy ==
    /\ pc = "r_destroy"
    /\ rootExists' = FALSE
    /\ leafLinks' = {}
    /\ classExists' = FALSE
    /\ log' = log \o <<Call("device_destroy", NoLine, NoChild, "gpio"),
                       Call("class_destroy", NoLine, NoChild, CLASS_NAME)>>
    /\ pc' = "done"
    /\ UNCHANGED <<dtVars, declared, vaVars, cnp, i, gpio_count, ret, sysfs_link, dir_str,
                   dflags, priv, aliasLinks, exported, lineFlags, outcome,
                   removes, ri, rlink>>

\* ------------------------------------------------------------ specification
Next ==
    \/ ProbeEntry
    \/ CountChildren
    \/ ClassCreate
    \/ DeviceCreate
    \/ CreateLink
    \/ LoopHead
    \/ ReadName
    \/ ReadDirection
    \/ SetFlags
    \/ GetGpiod
    \/ Export
    \/ ExportLink
    \/ AfterLoop
    \/ ErrSysfs
    \/ ErrDevice
    \/ ErrClass
    \/ RemoveEntry
    \/ RemoveUnexport
    \/ RemoveLink
    \/ RemoveDestroy

Spec == Init /\ [][Next]_vars

\* xbrother_probe alone: one call of setup, from entry to return
NextProbe ==
    \/ ProbeEntry
    \/ CountChildren
    \/ ClassCreate
    \/ DeviceCreate
    \/ CreateLink
    \/ LoopHead
    \/ ReadName
    \/ ReadDirection
    \/ SetFlags
    \/ GetGpiod
    \/ Export
    \/ ExportLink
    \/ AfterLoop
    \/ ErrSysfs
    \/ ErrDevice
    \/ ErrClass

SpecProbe == Init /\ [][NextProbe]_vars

\* ------------------------------------------------------------ value access
\* write(level) through the "value" attribute of the leaf named after child
\* c, after a successful probe: rejected on a line configured as input,
\* otherwise one provider call that sets the level
Write ==
    /\ pc = "done"
    /\ ret = "0"
    /\ removes = 0
    /\ \E lk \in leafLinks, v \in {0, 1} :
         /\ lk.line \in exported
         /\ IF lineFlags[lk.line] = "GPIOD_IN"
            THEN /\ wres' = [child |-> lk.name, line |-> lk.line, value |-> v,
                             res |-> "ReadOnly", before |-> level[lk.line]]
                 /\ level' = level
            ELSE /\ wres' = [child |-> lk.name, line |-> lk.line, value |-> v,
                             res |-> "OK", before |-> level[lk.line]]
                 /\ level' = [level EXCEPT ![lk.line] = v]
    /\ UNCHANGED <<dtVars, declared, pc, cnp, i, gpio_count, ret, sysfs_link,
                   dir_str, dflags, priv, nsVars, lineFlags, log, outcome,
                   rmVars>>

NextAccess ==
    \/ NextProbe
    \/ Write

SpecAccess == Init /\ [][NextAccess]_vars

TypeOK ==
    /\ i \in 0 .. MaxChildren
    /\ cnp \in 0 .. MaxChildren
    /\ removes \in 0 .. MaxRemoves
    /\ exported \subseteq Lines

\* ------------------------------------------------------------ observations
LogIdx == 1 .. Len(log)

\* positions in log of the calls op made by invocation r (0 is the probe,
\* r >= 1 the r-th xbrother_remove)
CallIdx(op, r) == {n \in LogIdx : log[n].op = op /\ log[n].by = r}

\* positions of the gpiod_unexport calls for the line published for child c
UnexportIdx(c, r) == {n \in CallIdx("gpiod_unexport", r) : log[n].child = c}

\* the entry loop of the probe was entered
LoopReached == CallIdx("sysfs_create_link", 0) # {}

SomeDeferred == \E k \in Children : outcome[k] = "defer"

NamespaceEmpty ==
    /\ ~classExists
    /\ ~rootExists
    /\ aliasLinks = {}
    /\ exported = {}
    /\ leafLinks = {}

SoftSkips == {"noname", "nodir", "baddir", "acqfail", "expfail", "linkfail"}

\* child c passed the name and direction checks
Valid(c) ==
    /\ enabled[c]
    /\ outcome[c] \in {"acqfail", "defer", "expfail", "linkfail", "ok"}

\* the line of child c's own source reference (its position among the
\* declared entries) can be acquired and published
OwnLineGood(c) == lineMode[c] = "ok"

Good(c) == Valid(c) /\ OwnLineGood(c)

ProbeReturned == pc = "done" /\ removes = 0

\* ------------------------------------------------------------ C1
\* C1: when the acquire of entry k is deferred, every entry exported before
\* it is unexported, in reverse acquisition order, before the root device is
\* destroyed and before the probe returns; entry k itself is never released.
C1_RollbackOrderOnDefer ==
    (ProbeReturned /\ SomeDeferred) =>
        /\ \A c \in Children : outcome[c] = "ok" =>
             \E n \in UnexportIdx(c, 0) :
                \A d \in CallIdx("device_destroy", 0) : n < d
        /\ \A c1, c2 \in Children :
             (outcome[c1] = "ok" /\ outcome[c2] = "ok" /\ c1 < c2) =>
                \E n1 \in UnexportIdx(c1, 0), n2 \in UnexportIdx(c2, 0) : n2 < n1
        /\ \A k \in Children : outcome[k] = "defer" => UnexportIdx(k, 0) = {}

\* ------------------------------------------------------------ C2
\* C2: a probe that returns an error leaves no root device, alias link, leaf
\* node or leaf link behind; a probe that returns 0 has the class, the root
\* device, the alias link and the leaf of every recorded line published.
C2_AllOrNothing ==
    ProbeReturned =>
        IF ret # "0"
        THEN /\ ~rootExists
             /\ aliasLinks = {}
             /\ exported = {}
             /\ leafLinks = {}
        ELSE /\ classExists
             /\ rootExists
             /\ sysfs_link \in aliasLinks
             /\ \A s \in 0 .. (priv.gpio_count - 1) :
                  /\ priv.gpios[s].gpiod \in exported
                  /\ [name |-> priv.gpios[s].name,
                      line |-> priv.gpios[s].gpiod] \in leafLinks

\* ------------------------------------------------------------ C3
AllInvalidOrUnacquirable ==
    \A c \in Children :
        outcome[c] \in {"disabled", "noname", "nodir", "baddir", "acqfail"}

C4_CountOfGoodEntries ==
    (ProbeReturned /\ LoopReached /\ ~SomeDeferred
       /\ \E c \in Children : Good(c)) =>
        /\ ret = "0"
        /\ priv.gpio_count = Cardinality({c \in Children : Good(c)})

\* ------------------------------------------------------------ C5
\* C5: a soft-skipped entry does not affect its successors: every later
\* valid entry whose own line can be acquired and published is exported and
\* the probe succeeds.
C5_SkipIsLocal ==
    (ProbeReturned /\ LoopReached /\ ~SomeDeferred) =>
        \A j, k \in Children :
            (j < k /\ outcome[j] \in SoftSkips /\ Good(k)) =>
                (outcome[k] = "ok" /\ ret = "0")

\* ------------------------------------------------------------ C6
\* C6: between two entries of the loop, a line handle is held only for lines
\* that are published: a failed publication has released the handle.
C6_HeldOnlyIfPublished ==
    (pc \in {"loop", "after"}) =>
        \A l \in Lines : lineFlags[l] # "FREE" => l \in exported

\* ------------------------------------------------------------ C7
\* C7: the first xbrother_remove unexports the recorded lines in reverse
\* acquisition order and only then removes the alias link and destroys the
\* root device.
C7_TeardownReverseOrder ==
    (pc = "done" /\ removes = 1) =>
        /\ \A s1, s2 \in 0 .. (priv.gpio_count - 1) :
             s1 < s2 =>
                \E n1 \in UnexportIdx(priv.gpios[s1].name, 1),
                   n2 \in UnexportIdx(priv.gpios[s2].name, 1) : n2 < n1
        /\ \A s \in 0 .. (priv.gpio_count - 1) :
             \E n \in UnexportIdx(priv.gpios[s].name, 1) :
                \A d \in CallIdx("sysfs_remove_link", 1)
                         \cup CallIdx("device_destroy", 1) : n < d

\* ------------------------------------------------------------ C8
\* C8: whenever a line of the group is published (export node or leaf link),
\* the root device exists.
C8_RootOutlivesLines ==
    (exported # {} \/ leafLinks # {}) => rootExists

\* ------------------------------------------------------------ C9
\* C9: a deferred acquire makes the probe return -EPROBE_DEFER with no
\* acquire or publish call for any later entry; without a deferred acquire
\* the loop visits every entry; no entry is acquired more than once.
C9_OnlyDeferAborts ==
    /\ (ProbeReturned /\ SomeDeferred) =>
          /\ ret = "EPROBE_DEFER"
          /\ \A k \in Children : outcome[k] = "defer" =>
               \A n \in LogIdx :
                  log[n].op \in {"gpiod_get_index", "gpiod_export",
                                 "gpiod_export_link"} => log[n].child <= k
    /\ (ProbeReturned /\ LoopReached /\ ~SomeDeferred) =>
          \A c \in Children : outcome[c] \notin {"none", "overflow"}
    /\ \A c \in Children :
          Cardinality({n \in CallIdx("gpiod_get_index", 0) : log[n].child = c}) <= 1

C9_Witness ==
    /\ ProbeReturned
    /\ outcome[0] = "defer"
    /\ enabled[1]
    /\ outcome[1] = "none"
    /\ ret = "EPROBE_DEFER"

\* ------------------------------------------------------------ C10
\* C10: a second xbrother_remove on the same driver data makes no release
\* call (unexport, alias link removal, device or class destruction).
C10_IdempotentTeardown ==
    \A n \in LogIdx : log[n].by < 2

\* ------------------------------------------------------------ C11
ExpectedFlags ==
    [t \in {"input", "output", "low", "high"} |->
        CASE t = "input" -> "GPIOD_IN"
          [] t = "output" -> "GPIOD_OUT_LOW"
          [] t = "low" -> "GPIOD_OUT_LOW"
          [] t = "high" -> "GPIOD_OUT_HIGH"]

\* positions in log of the acquire call made for child c
GetIdx(c) == {n \in CallIdx("gpiod_get_index", 0) : log[n].child = c}

\* C11: "input" acquires the line as input, "output" and "low" as output-low,
\* "high" as output-high; any other token and a missing direction skip the
\* entry without an acquire call, and the loop moves on to the next entry.
C11_DirectionDecoding ==
    /\ pc = "get" =>
          /\ declared[cnp] \in DOMAIN ExpectedFlags
          /\ dflags = ExpectedFlags[declared[cnp]]
    /\ \A c \in Children :
          /\ GetIdx(c) # {} => declared[c] \in DOMAIN ExpectedFlags
          /\ outcome[c] \in {"expfail", "linkfail", "ok"} =>
                \A n \in GetIdx(c) :
                   lineFlags[log[n].line] = ExpectedFlags[declared[c]]
          /\ (outcome[c] # "none" /\ enabled[c] /\ outcome[c] # "noname"
                /\ declared[c] \notin DOMAIN ExpectedFlags) =>
                /\ outcome[c] \in {"nodir", "baddir"}
                /\ GetIdx(c) = {}
          /\ outcome[c] \in {"nodir", "baddir"} =>
                /\ GetIdx(c) = {}
                /\ cnp > c
                /\ pc # "err_sysfs" \/ SomeDeferred \/ cnp = MaxChildren

C11_Witness ==
    /\ ProbeReturned
    /\ \E c1, c2 \in Children :
         /\ declared[c1] = "output"
         /\ outcome[c1] = "ok"
         /\ \A n \in GetIdx(c1) : lineFlags[log[n].line] = "GPIOD_OUT_LOW"
         /\ declared[c2] = "bogus"
         /\ outcome[c2] = "baddir"

C13_OwnLineUnderOwnName ==
    /\ \A c \in Children :
          outcome[c] = "ok" => \A n \in GetIdx(c) : log[n].line = c
    /\ \A lk \in leafLinks : lk.line = lk.name

\* ------------------------------------------------------------ C14
\* C14: no line is requested from the provider while a handle to it, obtained
\* earlier in the same probe, is still held.
C14_ExactlyOnceAcquisition ==
    pc = "get" => lineFlags[i] = "FREE"

\* ------------------------------------------------------------ C15
\* C15: xbrother_remove removes the alias link under the name the probe
\* created it with, so that after it no alias link, root device or leaf of
\* the group remains.
C15_AliasRemoved ==
    (pc = "done" /\ removes >= 1) =>
        /\ rlink = sysfs_link
        /\ aliasLinks = {}
        /\ ~rootExists
        /\ exported = {}
        /\ leafLinks = {}

\* ------------------------------------------------------------ C16
Ops == [n \in LogIdx |-> log[n].op]

\* C16: a failure before the entry loop unwinds in reverse creation order:
\* nothing after a failed class creation, the class after a failed device
\* creation, the device then the class after a failed alias link; the probe
\* returns the error code and no line was acquired or published.
C16_PreLoopUnwind ==
    (ProbeReturned /\ ~LoopReached) =>
        /\ ret # "0"
        /\ NamespaceEmpty
        /\ \A l \in Lines : lineFlags[l] = "FREE"
        /\ \A c \in Children : outcome[c] = "none"
        /\ \/ Ops = <<>> /\ ret \in {"ENODEV", "ENOMEM", "EINVAL"}
           \/ Ops = <<"class_create", "class_destroy">> /\ ret = "ENOMEM"
           \/ Ops = <<"class_create", "device_create",
                      "device_destroy", "class_destroy">> /\ ret = "EEXIST"

C16_Witness ==
    /\ ProbeReturned
    /\ Ops = <<"class_create", "device_create", "device_destroy", "class_destroy">>
    /\ ret = "EEXIST"

\* ------------------------------------------------------------ C17
C17_Inv ==
    /\ CountAvailable = 0 =>
          /\ log = <<>>
          /\ NamespaceEmpty
          /\ \A l \in Lines : lineFlags[l] = "FREE"
          /\ pc \in {"start", "count", "done"}
          /\ ret # "0"
    /\ \A c \in Children : ~enabled[c] =>
          /\ \A n \in LogIdx : log[n].child # c
          /\ outcome[c] \in {"none", "disabled"}
    /\ gpio_count <= CountAvailable
    /\ i <= CountAvailable
    /\ priv.gpio_count <= CountAvailable

C17_Step ==
    (pc = "count" /\ CountAvailable = 0) => (pc' = "done" /\ ret' = "EINVAL")

\* C17: with no available child the probe returns -EINVAL from the counting
\* step, before any class, device, link or line is touched; a disabled child
\* is never acquired or published and is not counted as a line.
C17_EmptySetRejected == [](C17_Inv) /\ [][C17_Step]_vars

C17_Witness ==
    /\ ProbeReturned
    /\ CountAvailable = 0
    /\ ret = "EINVAL"
    /\ log = <<>>

\* ------------------------------------------------------------ C18
LoopPcs == {"loop", "name", "direction", "flags", "get", "export",
            "export_link", "after"}

BodyPcs == LoopPcs \ {"loop", "after"}

C18_Inv ==
    /\ (removes = 0 /\ pc \in LoopPcs) =>
          i <= Cardinality({c \in Children : c < cnp /\ enabled[c]})
    /\ pc \in BodyPcs => i < gpio_count
    /\ \A c \in Children : outcome[c] # "overflow"
    /\ (pc \in LoopPcs \/ (ProbeReturned /\ ret = "0")) =>
          /\ \A s \in 0 .. (i - 1) :
                /\ priv.gpios[s].gpiod \in Lines
                /\ lineFlags[priv.gpios[s].gpiod] # "FREE"
                /\ priv.gpios[s].gpiod \in exported
                /\ [name |-> priv.gpios[s].name,
                    line |-> priv.gpios[s].gpiod] \in leafLinks
          /\ \A s1, s2 \in 0 .. (i - 1) :
                s1 # s2 => priv.gpios[s1].gpiod # priv.gpios[s2].gpiod
    /\ (ProbeReturned /\ ret = "0") =>
          /\ priv.gpio_count = i
          /\ exported = {priv.gpios[s].gpiod : s \in 0 .. (i - 1)}
    /\ \A r \in 1 .. removes :
          (r < removes \/ pc = "done") =>
             /\ \A s \in 0 .. (priv.gpio_count - 1) :
                   Cardinality({n \in CallIdx("gpiod_unexport", r) :
                                   log[n].line = priv.gpios[s].gpiod}) = 1
             /\ Cardinality(CallIdx("gpiod_unexport", r)) = priv.gpio_count
             /\ exported = {}

C18_Step ==
    \A s \in 0 .. (i - 1) : priv'.gpios[s] = priv.gpios[s]

\* C18: the success counter never exceeds the number of available children
\* visited, so the slot used is inside the array and the child-count abort
\* never happens; slots below the counter hold distinct, held, published
\* lines and are never rewritten; each xbrother_remove unexports every
\* recorded line exactly once and nothing else.
C18_Ledger == [](C18_Inv) /\ [][C18_Step]_vars

C18_Witness ==
    /\ pc = "done"
    /\ removes = 1
    /\ priv.gpio_count >= 2
    /\ exported = {}

====
